---- MODULE Spec2Model ----
(***************************************************************************)
(* Model of summaries/algorithm.py: the approximate Bayesian computation   *)
(* algorithm hierarchy (NearestNeighborAlgorithm, SubsetSelectionAlgorithm,*)
(* StaticCompressorNearestNeighborAlgorithm).                              *)
(*                                                                         *)
(* Numbers are exact rationals <<num, den>> in lowest terms, den > 0.      *)
(* Distances are kept squared (the square root is monotone, so order and   *)
(* the value 0 are preserved).  Arrays are records [shape, val] where val  *)
(* is a nested sequence; array indices are 1-based, so the index scipy     *)
(* reports for a missing neighbour (self.n, 0-based) is n + 1 here.        *)
(***************************************************************************)
EXTENDS Integers, Sequences, FiniteSets, TLC

(* ------------------------------ bounds --------------------------------- *)
MaxRows == 2
MaxObs == 2

(* number of parameters q of the reference table *)
NumParams == 1

FeatVals == {0, 4}
ObsVals == {0, 4}

(* ----------------------------- rationals ------------------------------- *)
Abs(x) == IF x < 0 THEN -x ELSE x

RECURSIVE Gcd(_, _)
Gcd(a, b) == IF b = 0 THEN a ELSE Gcd(b, a % b)

Rat(n, d) ==
    LET g == Gcd(Abs(n), Abs(d))
        s == IF d < 0 THEN -1 ELSE 1
    IN  <<(s * n) \div g, (s * d) \div g>>

RInt(n) == <<n, 1>>
RAdd(a, b) == Rat(a[1] * b[2] + b[1] * a[2], a[2] * b[2])
RSub(a, b) == Rat(a[1] * b[2] - b[1] * a[2], a[2] * b[2])
RMul(a, b) == Rat(a[1] * b[1], a[2] * b[2])
RDiv(a, b) == Rat(a[1] * b[2], a[2] * b[1])
RLt(a, b) == a[1] * b[2] < b[1] * a[2]
RLe(a, b) == a[1] * b[2] <= b[1] * a[2]

RECURSIVE RSum(_)
RSum(s) == IF s = <<>> THEN RInt(0) ELSE RAdd(Head(s), RSum(Tail(s)))

(* the infinite distance: RLt and RLe order it above every number *)
Inf == <<1, 0>>

IsSquare(v) == \E s \in 0..v : s * s = v
ISqrt(v) == CHOOSE s \in 0..v : s * s = v

(* ------------------------------ arrays --------------------------------- *)
Column(rows, c) == [j \in 1..Len(rows) |-> rows[j][c]]
NumCols(rows) == IF rows = <<>> THEN 0 ELSE Len(rows[1])

Range(s) == {s[j] : j \in 1..Len(s)}

(* a sequence in evaluated form; the identity on sequences *)
Array(s) == s \o <<>>

(* An input array `data` is [ndim, rows]: ndim = 2 is an (m x p) matrix with *)
(* rows `rows`; ndim = 1 is a p-vector, kept as the single element of rows. *)
(* np.atleast_2d: a p-vector becomes a (1 x p) matrix *)
AtLeast2d(data) == [ndim |-> 2, rows |-> data.rows]

Ok(v) == [status |-> "ok", value |-> v]
Err(e) == [status |-> "error", error |-> e]

(* ------------------ sklearn.preprocessing.StandardScaler ---------------- *)
RIsSquare(r) == IsSquare(r[1]) /\ IsSquare(r[2])
RSqrt(r) == <<ISqrt(r[1]), ISqrt(r[2])>>

Mean(xs) == RDiv(RSum(xs), RInt(Len(xs)))
RSquare(r) == RMul(r, r)
MeanSquare(xs, mu) ==
    RDiv(RSum([j \in 1..Len(xs) |-> RSquare(RSub(xs[j], mu))]), RInt(Len(xs)))
Variance(xs) == MeanSquare(xs, Mean(xs))

(* the tables whose fitted scale is a rational number *)
Scalable(rows) == \A c \in 1..NumCols(rows) : RIsSquare(Variance(Column(rows, c)))

(* fit: per-feature mean and scale; a feature of zero variance gets scale 1 *)
ScaleOf(v) == IF v = RInt(0) THEN RInt(1) ELSE RSqrt(v)

ScalerFit(rows) ==
    [mean  |-> [c \in 1..NumCols(rows) |-> Mean(Column(rows, c))],
     scale |-> [c \in 1..NumCols(rows) |-> ScaleOf(Variance(Column(rows, c)))]]

ScaleRow(scaler, row) ==
    Array([c \in 1..Len(row) |-> RDiv(RSub(row[c], scaler.mean[c]), scaler.scale[c])])

(* transform: validates the input (2-D, at least one row, the fitted number *)
(* of features) and returns a new centred and scaled matrix                 *)
ScalerTransform(scaler, data) ==
    IF data.ndim # 2 THEN Err("ValueError")
    ELSE IF Len(data.rows) = 0 THEN Err("ValueError")
    ELSE IF NumCols(data.rows) # Len(scaler.mean) THEN Err("ValueError")
    ELSE Ok([ndim |-> 2,
             rows |-> Array([i \in 1..Len(data.rows) |->
                               ScaleRow(scaler, data.rows[i])])])

(* a transform that fits again on the data it is given *)
ScalerRefit(scaler, data) ==
    IF data.ndim = 2 /\ Len(data.rows) > 0 /\ Scalable(data.rows)
    THEN [fitted |-> TRUE] @@ ScalerFit(data.rows)
    ELSE scaler

(* the scaler after transform(data): the fitted mean and scale are as before *)
ScalerAfterTransform(scaler, data) == scaler

(* --------------------------- scipy.spatial.KDTree ----------------------- *)
SqDist(x, t) ==
    RSum(Array([c \in 1..Len(x) |-> RSquare(RSub(x[c], t[c]))]))

(* the distances from the query point x to every reference entry *)
RowDists(tree, x) == Array([j \in 1..Len(tree) |-> SqDist(x, tree[j])])

(* reference entry a comes before b: nearer first, equal distances by the  *)
(* lower row index                                                         *)
Before(d, a, b) == RLt(d[a], d[b]) \/ (d[a] = d[b] /\ a < b)

(* the reference entries ordered by the distances d *)
NearestOrder(d) ==
    Array([r \in 1..Len(d) |->
             CHOOSE j \in 1..Len(d) :
                 Cardinality({a \in 1..Len(d) : Before(d, a, j)}) = r - 1])

(* query(x, k): the k nearest entries of each row of x by increasing       *)
(* distance; a missing neighbour has distance inf and index n (here n + 1);*)
(* when k = 1 the last dimension of both outputs is squeezed               *)
RowNearest(d, o, n, k) ==
    [indices   |-> Array([r \in 1..k |-> IF r <= n THEN o[r] ELSE n + 1]),
     distances |-> Array([r \in 1..k |-> IF r <= n THEN d[o[r]] ELSE Inf])]

RowOrdered(d, n, k) == RowNearest(d, NearestOrder(d), n, k)

RowQuery(tree, x, k) == RowOrdered(RowDists(tree, x), Len(tree), k)

(* the outputs of query for the per-row answers q of m rows *)
QueryOutput(q, m, k) ==
    IF k = 1
    THEN Ok([indices   |-> [shape |-> <<m>>,
                            val   |-> Array([i \in 1..m |-> q[i].indices[1]])],
             distances |-> [shape |-> <<m>>,
                            val   |-> Array([i \in 1..m |-> q[i].distances[1]])]])
    ELSE Ok([indices   |-> [shape |-> <<m, k>>,
                            val   |-> Array([i \in 1..m |-> q[i].indices])],
             distances |-> [shape |-> <<m, k>>,
                            val   |-> Array([i \in 1..m |-> q[i].distances])]])

KDTreeQuery(tree, data, k) ==
    IF Len(data.rows) > 0 /\ NumCols(data.rows) # NumCols(tree)
    THEN Err("ValueError")
    ELSE QueryOutput(Array([i \in 1..Len(data.rows) |->
                              RowQuery(tree, data.rows[i], k)]),
                     Len(data.rows), k)

(* every index held by an index array *)
IndexLeaves(indices) ==
    IF Len(indices.shape) = 1 THEN Range(indices.val)
    ELSE UNION {Range(indices.val[i]) : i \in 1..Len(indices.val)}

(* params[indices]: fancy indexing makes a new array of shape                *)
(* indices.shape + (q,); an index outside the table raises IndexError       *)
TakeRows(params, indices) ==
    IF \E j \in IndexLeaves(indices) : j > Len(params) THEN Err("IndexError")
    ELSE Ok([shape |-> indices.shape \o <<NumParams>>,
             val   |-> IF Len(indices.shape) = 1
                       THEN Array([i \in 1..Len(indices.val) |-> params[indices.val[i]]])
                       ELSE Array([i \in 1..Len(indices.val) |->
                               Array([r \in 1..Len(indices.val[i]) |->
                                        params[indices.val[i][r]]])])])

(* ------------------------- Python None / Optional ----------------------- *)
NoneVal == [isNone |-> TRUE, val |-> <<>>]
Some(v) == [isNone |-> FALSE, val |-> v]
NoScaler == [fitted |-> FALSE, mean |-> <<>>, scale |-> <<>>]

(* ------------------------------ ABCAlgorithm ---------------------------- *)
(* __init__: with standardize the scaler is fitted on the table and         *)
(* train_data becomes the transformed copy                                  *)
ABCFitted(train_data, train_params, scaler) ==
    [train_data      |-> IF scaler.fitted
                         THEN Array([j \in 1..Len(train_data) |->
                                       ScaleRow(scaler, train_data[j])])
                         ELSE train_data,
     train_params    |-> train_params,
     standard_scalar |-> scaler]

ABCInit(train_data, train_params, standardize) ==
    ABCFitted(train_data, train_params,
              IF standardize THEN [fitted |-> TRUE] @@ ScalerFit(train_data)
              ELSE NoScaler)

(* NearestNeighborAlgorithm.__init__: the spatial index over train_data *)
KDTree(base) == base @@ [reference |-> base.train_data]

NearestNeighborInit(train_data, train_params, standardize) ==
    KDTree(ABCInit(train_data, train_params, standardize))

(* NearestNeighborAlgorithm.sample; `queried` records the representation    *)
(* handed to reference.query                                                *)
(* lines 130-131: the fitted scaler, when there is one, transforms the data *)
Standardize(self, data) ==
    IF self.standard_scalar.fitted
    THEN ScalerTransform(self.standard_scalar, data)
    ELSE Ok(data)

(* line 134: the samples y with the indices and distances of the query q *)
NNReturn(t, q, y) ==
    IF y.status = "error" THEN y
    ELSE Ok([samples |-> y.value,
             info    |-> [indices   |-> q.value.indices,
                          distances |-> q.value.distances],
             queried |-> t.value.rows])

(* line 133: the parameter rows at the indices of the query q *)
NNTake(self, t, q) ==
    IF q.status = "error" THEN q
    ELSE NNReturn(t, q, TakeRows(self.train_params, q.value.indices))

(* line 132: the query with the standardized data t *)
NNQuery(self, t, num_samples) ==
    IF t.status = "error" THEN t
    ELSE NNTake(self, t, KDTreeQuery(self.reference, t.value, num_samples))

NearestNeighborSample(self, data, num_samples) ==
    NNQuery(self, Standardize(self, AtLeast2d(data)), num_samples)

(* --------------- StaticCompressorNearestNeighborAlgorithm --------------- *)
Compressors == {"identity", "first", "sum"}

(* the compressor functions: pure maps from an (m x p) matrix to features *)
Compress(compressor, rows) ==
    CASE compressor = "identity" -> rows
      [] compressor = "first"    -> Array([i \in 1..Len(rows) |-> <<rows[i][1]>>])
      [] compressor = "sum"      -> Array([i \in 1..Len(rows) |-> <<RSum(rows[i])>>])

StaticCompressorInit(train_data, train_params, compressor, standardize) ==
    NearestNeighborInit(Compress(compressor, train_data), train_params, standardize)

(* get_compressor: asserts data is None and returns the captured function *)
StaticGetCompressorUnchecked(compressor, data) == Ok(compressor)
StaticGetCompressor(compressor, data) ==
    IF data # NoneVal THEN Err("AssertionError") ELSE Ok(compressor)

(* sample: compress, standardize, then NearestNeighborAlgorithm.sample on   *)
(* the result, and record the data under info['compressed_data']            *)
SCReturn(t, r) ==
    IF r.status = "error" THEN r
    ELSE Ok([samples |-> r.value.samples,
             info    |-> r.value.info @@ [compressed_data |-> t.value.rows],
             queried |-> r.value.queried])

(* line 228: the parent's sample on the standardized compressed data t *)
SCSuper(self, t, num_samples) ==
    IF t.status = "error" THEN t
    ELSE SCReturn(t, NearestNeighborSample(self, t.value, num_samples))

(* lines 225-227: compress with the compressor g, then standardize *)
SCCompress(self, g, data, num_samples) ==
    IF g.status = "error" THEN g
    ELSE SCSuper(self,
                 Standardize(self, [ndim |-> data.ndim,
                                    rows |-> Compress(g.value, data.rows)]),
                 num_samples)

StaticCompressorSample(self, compressor, data, num_samples) ==
    SCCompress(self, StaticGetCompressor(compressor, NoneVal), data, num_samples)

(* ----------------------- SubsetSelectionAlgorithm ----------------------- *)
(* itertools.product over (False, True) per feature: lexicographic, the last *)
(* feature varying fastest                                                  *)
RECURSIVE Product(_)
Product(p) ==
    IF p = 0 THEN << <<>> >>
    ELSE LET prev == Product(p - 1)
         IN  [j \in 1..(2 * Len(prev)) |->
                Append(prev[(j + 1) \div 2], (j % 2) = 0)]

AnyTrue(mask) == \E c \in 1..Len(mask) : mask[c]

(* the masks of the search: every element of the product with any(mask) *)
EnumerateMasksUnfiltered(p) == Product(p)
EnumerateMasks(p) == SelectSeq(Product(p), AnyTrue)

(* row[mask]: the entries of the row at the True positions of the mask *)
RECURSIVE MaskRow(_, _)
MaskRow(row, mask) ==
    IF row = <<>> THEN <<>>
    ELSE (IF Head(mask) THEN <<Head(row)>> ELSE <<>>) \o MaskRow(Tail(row), Tail(mask))

(* a[:, mask] on a matrix; on a 1-D array the two-index slice fails *)
MaskColumns(rows, mask) == Array([j \in 1..Len(rows) |-> MaskRow(rows[j], mask)])

(* the numbers of one observation's candidate samples: the (k x q) block,   *)
(* or the single parameter row when the sample axis was squeezed            *)
RECURSIVE Concat(_)
Concat(ss) == IF ss = <<>> THEN <<>> ELSE Head(ss) \o Concat(Tail(ss))
Numbers(samples, i) ==
    IF Len(samples.shape) = 3 THEN Concat(samples.val[i]) ELSE samples.val[i]

RECURSIVE Sum(_)
Sum(s) == IF s = <<>> THEN 0 ELSE Head(s) + Sum(Tail(s))
Max(S) == CHOOSE x \in S : \A y \in S : y <= x
Min(S) == CHOOSE x \in S : \A y \in S : x <= y
Spread(s) == Max(Range(s)) - Min(Range(s))

(* evaluate_loss: the pluggable loss strategies, one number per observation.*)
(*   "spread":  the spread of the candidate draws (an entropy-like score)   *)
(*   "sum":     the sum of the candidate draws                              *)
(*   "strict":  the spread, raising on a candidate draw that is not         *)
(*              positive (a loss that takes logarithms)                     *)
Losses == {"spread", "sum", "strict"}

EvaluateLoss(loss, samples) ==
    LET m == Len(samples.val)
    IN  CASE loss = "spread" -> Ok(Array([i \in 1..m |-> Spread(Numbers(samples, i))]))
          [] loss = "sum"    -> Ok(Array([i \in 1..m |-> Sum(Numbers(samples, i))]))
          [] loss = "strict" ->
                IF \E i \in 1..m : \E x \in Range(Numbers(samples, i)) : x <= 0
                THEN Err("ValueError")
                ELSE Ok(Array([i \in 1..m |-> Spread(Numbers(samples, i))]))

(* an update that takes every observation along when any one improves *)
ImprovedTogether(loss, best_loss) ==
    IF \E i \in 1..Len(loss) : loss[i] < best_loss[i] THEN 1..Len(loss) ELSE {}

(* loss < best_loss, elementwise: the observations the new mask improves *)
Improved(loss, best_loss) == {i \in 1..Len(loss) : loss[i] < best_loss[i]}

(* one pass of the loop body for `mask`, from the child sampler to the loss *)
MaskLoss(r, l) ==
    IF l.status = "error" THEN l
    ELSE Ok([samples |-> r.value.samples, loss |-> l.value])

MaskSamples(r, loss) ==
    IF r.status = "error" THEN r
    ELSE MaskLoss(r, EvaluateLoss(loss, r.value.samples))

EvaluateMask(train_data, train_params, data, mask, num_samples, loss) ==
    IF data.ndim # 2 THEN Err("IndexError")
    ELSE MaskSamples(
             NearestNeighborSample(
                 NearestNeighborInit(MaskColumns(train_data, mask), train_params, FALSE),
                 [ndim |-> 2, rows |-> MaskColumns(data.rows, mask)],
                 num_samples),
             loss)

(* variants of the update: one that never lowers best_loss, one that also  *)
(* replaces the running best on an equal loss                               *)
UpdateBestStaleLoss(best_loss, best_samples, best_mask, loss, samples, mask, m) ==
    IF best_loss.isNone
    THEN [best_loss    |-> Some(loss),
          best_samples |-> Some(samples),
          best_mask    |-> Some([i \in 1..m |-> mask])]
    ELSE LET idx == Improved(loss, best_loss.val)
         IN  [best_loss    |-> best_loss,
              best_samples |-> Some([best_samples.val EXCEPT !.val =
                                       [i \in 1..Len(best_samples.val.val) |->
                                          IF i \in idx THEN samples.val[i]
                                          ELSE best_samples.val.val[i]]]),
              best_mask    |-> Some([i \in 1..Len(best_mask.val) |->
                                       IF i \in idx THEN mask ELSE best_mask.val[i]])]

UpdateBestOnEqual(best_loss, best_samples, best_mask, loss, samples, mask, m) ==
    IF best_loss.isNone
    THEN [best_loss    |-> Some(loss),
          best_samples |-> Some(samples),
          best_mask    |-> Some([i \in 1..m |-> mask])]
    ELSE LET idx == {i \in 1..Len(loss) : loss[i] <= best_loss.val[i]}
         IN  [best_loss    |-> Some([i \in 1..Len(loss) |->
                                       IF loss[i] < best_loss.val[i]
                                       THEN loss[i] ELSE best_loss.val[i]]),
              best_samples |-> Some([best_samples.val EXCEPT !.val =
                                       [i \in 1..Len(best_samples.val.val) |->
                                          IF i \in idx THEN samples.val[i]
                                          ELSE best_samples.val.val[i]]]),
              best_mask    |-> Some([i \in 1..Len(best_mask.val) |->
                                       IF i \in idx THEN mask ELSE best_mask.val[i]])]

(* lines 165-173: the first mask initialises the running best; a later     *)
(* mask replaces it for the observations whose loss is strictly smaller     *)
UpdateBest(best_loss, best_samples, best_mask, loss, samples, mask, m) ==
    IF best_loss.isNone
    THEN [best_loss    |-> Some(loss),
          best_samples |-> Some(samples),
          best_mask    |-> Some([i \in 1..m |-> mask])]
    ELSE LET idx == Improved(loss, best_loss.val)
         IN  [best_loss    |-> Some([i \in 1..Len(loss) |->
                                       IF loss[i] < best_loss.val[i]
                                       THEN loss[i] ELSE best_loss.val[i]]),
              best_samples |-> Some([best_samples.val EXCEPT !.val =
                                       [i \in 1..Len(best_samples.val.val) |->
                                          IF i \in idx THEN samples.val[i]
                                          ELSE best_samples.val.val[i]]]),
              best_mask    |-> Some([i \in 1..Len(best_mask.val) |->
                                       IF i \in idx THEN mask ELSE best_mask.val[i]])]

(* how a failure inside the loop body leaves the call: no handler, the      *)
(* error ends sample and is the caller's outcome                            *)
OnMaskErrorSkip(error) == [pc |-> "loop", out |-> error]
OnMaskError(error) == [pc |-> "returned", out |-> error]

(* the value sample returns after the loop *)
SubsetResult(best_samples, best_mask, best_loss, masks, losses) ==
    Ok([samples |-> best_samples,
        info    |-> [best_mask |-> best_mask,
                     best_loss |-> best_loss,
                     masks     |-> masks,
                     losses    |-> losses]])

(* ------------------------------- state ---------------------------------- *)
VARIABLES
    cls,              \* the class of the instance: "NN", "SC" or "SS"
    train_data,       \* self.train_data
    train_params,     \* self.train_params
    standard_scalar,  \* self.standard_scalar
    reference,        \* self.reference (NN, SC): the indexed table
    compressor,       \* self.compressor (SC)
    raw_train_data,   \* self._raw_train_data (SC)
    loss_fn,          \* the evaluate_loss of the subclass (SS)
    ctor,             \* the constructor's arguments, as given
    pc,               \* "idle"; "loop" inside SubsetSelectionAlgorithm.sample;
                      \* "returned" when a call has handed its outcome back
    call,             \* the arguments of the running or last call
    data,             \* sample's local `data` (SS)
    masks, pos,       \* the masks and the position of the loop in them
    losses, best_loss, best_samples, best_mask,
    evaluated,        \* the masks whose loop body was entered, in order
    result,           \* what the last finished call gave its caller
    first             \* a call and outcome the caller kept for comparison

self_vars == <<cls, train_data, train_params, standard_scalar, reference,
               compressor, raw_train_data, loss_fn, ctor>>
other_self_vars == <<cls, train_data, train_params, reference,
                     compressor, raw_train_data, loss_fn, ctor>>
frame_vars == <<data, masks, pos, losses, best_loss, best_samples, best_mask>>
vars == <<self_vars, pc, call, frame_vars, evaluated, result, first>>

FeatureCounts == {1, 2}

Matrices(n, p, Vals) == [1..n -> [1..p -> {RInt(v) : v \in Vals}]]

(* the parameter tables: all rows distinct, or alternating values *)
ParamTables(n) ==
    {[j \in 1..n |-> [c \in 1..NumParams |-> j]],
     [j \in 1..n |-> [c \in 1..NumParams |-> j % 2]]}

(* the observations a caller passes: (m x p) matrices and p-vectors *)
Batches(p) ==
    {[ndim |-> 2, rows |-> r] : r \in UNION {Matrices(m, p, ObsVals) : m \in 0..MaxObs}}
    \cup {[ndim |-> 1, rows |-> r] : r \in Matrices(1, p, ObsVals)}

NoCall == [op |-> "none", data |-> NoneVal, num_samples |-> 0]
NoResult == [call |-> NoCall, out |-> [status |-> "none"]]
NoData == [ndim |-> 0, rows |-> <<>>]

Self == [train_data |-> train_data, train_params |-> train_params,
         standard_scalar |-> standard_scalar, reference |-> reference]

(* the instance a constructor call builds *)
Construct(c, args) ==
    CASE c = "NN" -> NearestNeighborInit(args.train_data, args.train_params,
                                         args.standardize)
      [] c = "SC" -> StaticCompressorInit(args.train_data, args.train_params,
                                          args.compressor, args.standardize)
      [] c = "SS" -> ABCInit(args.train_data, args.train_params, args.standardize)
                     @@ [reference |-> <<>>]

FrameInit ==
    /\ data = NoData
    /\ masks = <<>>
    /\ pos = 0
    /\ losses = <<>>
    /\ best_loss = NoneVal
    /\ best_samples = NoneVal
    /\ best_mask = NoneVal

(* the locals of sample are gone when it returns or raises *)
FrameReset ==
    /\ data' = NoData
    /\ masks' = <<>>
    /\ pos' = 0
    /\ losses' = <<>>
    /\ best_loss' = NoneVal
    /\ best_samples' = NoneVal
    /\ best_mask' = NoneVal

Init ==
    /\ cls \in {"NN", "SC", "SS"}
    /\ \E n \in 1..MaxRows, p \in FeatureCounts, standardize \in BOOLEAN :
       \E X \in Matrices(n, p, FeatVals), Y \in ParamTables(n),
          f \in Compressors, l \in Losses :
          /\ compressor = IF cls = "SC" THEN f ELSE "None"
          /\ loss_fn = IF cls = "SS" THEN l ELSE "None"
          /\ raw_train_data = IF cls = "SC" THEN X ELSE <<>>
          /\ ctor = [train_data |-> X, train_params |-> Y, standardize |-> standardize,
                     compressor |-> compressor]
          /\ standardize => Scalable(IF cls = "SC" THEN Compress(f, X) ELSE X)
          /\ LET obj == Construct(cls, ctor)
             IN  /\ train_data = obj.train_data
                 /\ train_params = obj.train_params
                 /\ standard_scalar = obj.standard_scalar
                 /\ reference = obj.reference
    /\ pc = "idle"
    /\ call = NoCall
    /\ FrameInit
    /\ evaluated = <<>>
    /\ result = NoResult
    /\ first = NoResult

(* ------------------------------ operations ------------------------------ *)
(* the call c ends with the outcome out, a return value or a raised error *)
Finish(c, out) ==
    /\ call' = c
    /\ result' = [call |-> c, out |-> out]
    /\ pc' = "returned"

(* NearestNeighborAlgorithm.sample(data, num_samples) *)
NNSample ==
    /\ pc = "idle" /\ cls = "NN"
    /\ \E d \in Batches(NumCols(ctor.train_data)), k \in 1..(Len(train_params) + 1) :
          /\ Finish([op |-> "sample", data |-> d, num_samples |-> k],
                    NearestNeighborSample(Self, d, k))
          /\ standard_scalar' = IF standard_scalar.fitted
                                THEN ScalerAfterTransform(standard_scalar, AtLeast2d(d))
                                ELSE standard_scalar
    /\ UNCHANGED <<other_self_vars, frame_vars, evaluated, first>>

(* StaticCompressorNearestNeighborAlgorithm.sample(data, num_samples) *)
SCSample ==
    /\ pc = "idle" /\ cls = "SC"
    /\ \E d \in Batches(NumCols(ctor.train_data)), k \in 1..(Len(train_params) + 1) :
          /\ d.ndim = 2
          /\ Finish([op |-> "sample", data |-> d, num_samples |-> k],
                    StaticCompressorSample(Self, compressor, d, k))
          /\ standard_scalar' =
                IF standard_scalar.fitted
                THEN ScalerAfterTransform(standard_scalar,
                                          [ndim |-> 2, rows |-> Compress(compressor, d.rows)])
                ELSE standard_scalar
    /\ UNCHANGED <<other_self_vars, frame_vars, evaluated, first>>

(* get_compressor(data): the static compressor's, and the subset search's   *)
(* which always raises NotImplementedError                                  *)
GetCompressor ==
    /\ pc = "idle" /\ cls \in {"SC", "SS"}
    /\ \E d \in {NoneVal} \cup Batches(NumCols(ctor.train_data)) :
          Finish([op |-> "get_compressor", data |-> d, num_samples |-> 0],
                 IF cls = "SC" THEN StaticGetCompressor(compressor, d)
                 ELSE Err("NotImplementedError"))
    /\ UNCHANGED <<self_vars, frame_vars, evaluated, first>>

(* SubsetSelectionAlgorithm.sample, lines 143-151: standardize the data     *)
(* (no atleast_2d here) and enumerate the masks                             *)
SSBegin ==
    /\ pc = "idle" /\ cls = "SS"
    /\ \E d \in Batches(NumCols(ctor.train_data)), k \in 1..(Len(train_params) + 1) :
          LET c == [op |-> "sample", data |-> d, num_samples |-> k]
              t == IF standard_scalar.fitted
                   THEN ScalerTransform(standard_scalar, d)
                   ELSE Ok(d)
          IN  /\ standard_scalar' = IF standard_scalar.fitted
                                    THEN ScalerAfterTransform(standard_scalar, d)
                                    ELSE standard_scalar
              /\ IF t.status = "error"
                 THEN /\ Finish(c, t)
                      /\ UNCHANGED frame_vars
                 ELSE /\ call' = c
                      /\ pc' = "loop"
                      /\ data' = t.value
                      /\ masks' = EnumerateMasks(NumCols(train_data))
                      /\ pos' = 1
                      /\ losses' = <<>>
                      /\ best_loss' = NoneVal
                      /\ best_samples' = NoneVal
                      /\ best_mask' = NoneVal
                      /\ UNCHANGED result
    /\ UNCHANGED <<other_self_vars, evaluated, first>>

(* lines 152-173: the loop body for the next mask *)
(* line 133 gathers the samples by advanced indexing, which copies: the    *)
(* array of samples owns its memory and shares none with train_params      *)
SamplesShareParamsAsView == TRUE
SamplesShareParams == FALSE

(* the row an in-place write puts at position i of the running best *)
WrittenRow(samples, i) ==
    IF Len(samples.shape) = 2 THEN samples.val[i] ELSE samples.val[i][1]

(* line 171: best_samples[idx] = samples[idx] writes into the array the   *)
(* name best_samples refers to, the samples of the first mask; train_params *)
(* takes the write only where that array shares its memory                *)
ParamsAfterWrite(params, idx, samples) ==
    IF SamplesShareParams
    THEN [j \in 1..Len(params) |->
            IF j \in idx THEN WrittenRow(samples, j) ELSE params[j]]
    ELSE params

(* a loop body whose minimum is taken in place, in the array that is also  *)
(* the first entry of losses                                               *)
SSKeepMinimumInPlace(e, b) ==
    /\ losses' = Append(IF losses = <<>> THEN losses
                        ELSE [losses EXCEPT ![1] = b.best_loss.val],
                        e.value.loss)
    /\ train_params' = train_params
    /\ best_loss' = b.best_loss
    /\ best_samples' = b.best_samples
    /\ best_mask' = b.best_mask
    /\ pos' = pos + 1
    /\ UNCHANGED <<pc, call, result, data, masks>>

(* lines 164-173: the loss is appended and the running best rebound or     *)
(* updated; np.minimum makes a new best_loss, so the first entry of losses *)
(* (the array best_loss named first) stays as it was appended              *)
SSKeep(e, b) ==
    /\ losses' = Append(losses, e.value.loss)
    /\ train_params' = IF best_loss.isNone THEN train_params
                       ELSE ParamsAfterWrite(train_params,
                                             Improved(e.value.loss, best_loss.val),
                                             e.value.samples)
    /\ best_loss' = b.best_loss
    /\ best_samples' = b.best_samples
    /\ best_mask' = b.best_mask
    /\ pos' = pos + 1
    /\ UNCHANGED <<pc, call, result, data, masks>>

SSRaise(h) ==
    IF h.pc = "returned"
    THEN Finish(call, h.out) /\ FrameReset /\ UNCHANGED train_params
    ELSE /\ pos' = pos + 1
         /\ UNCHANGED <<pc, call, result, data, masks, losses,
                        best_loss, best_samples, best_mask, train_params>>

SSBody(mask, e) ==
    /\ evaluated' = Append(evaluated, mask)
    /\ IF e.status = "error"
       THEN SSRaise(OnMaskError(e))
       ELSE SSKeep(e, UpdateBest(best_loss, best_samples, best_mask,
                                 e.value.loss, e.value.samples, mask,
                                 Len(data.rows)))

SSStep ==
    /\ pc = "loop" /\ pos <= Len(masks)
    /\ SSBody(masks[pos], EvaluateMask(train_data, train_params, data, masks[pos],
                                       call.num_samples, loss_fn))
    /\ UNCHANGED <<cls, train_data, standard_scalar, reference, compressor,
                   raw_train_data, loss_fn, ctor, first>>

(* lines 175-180: the loop is over, sample returns *)
SSReturn ==
    /\ pc = "loop" /\ pos > Len(masks)
    /\ Finish(call, SubsetResult(best_samples, best_mask, best_loss, masks, losses))
    /\ FrameReset
    /\ UNCHANGED <<self_vars, evaluated, first>>

(* the caller has taken the outcome and may call again *)
Resume ==
    /\ pc = "returned"
    /\ pc' = "idle"
    /\ call' = NoCall
    /\ result' = NoResult
    /\ evaluated' = <<>>
    /\ UNCHANGED <<self_vars, frame_vars, first>>

Next == NNSample \/ SCSample \/ GetCompressor \/ SSBegin \/ SSStep \/ SSReturn \/ Resume

Spec == Init /\ [][Next]_vars

(* Repeated calls: the caller keeps one call with its outcome and goes on   *)
(* calling.  The reference table is a two-row table over two features.      *)
RepeatTables == {<< <<RInt(0), RInt(4)>>, <<RInt(4), RInt(0)>> >>}

InitRepeat == Init /\ ctor.train_data \in RepeatTables

Remember ==
    /\ pc = "returned"
    /\ result.call.op = "sample"
    /\ first = NoResult
    /\ first' = result
    /\ pc' = "idle"
    /\ call' = NoCall
    /\ result' = NoResult
    /\ evaluated' = <<>>
    /\ UNCHANGED <<self_vars, frame_vars>>

NextRepeat == Next \/ Remember

SpecRepeat == InitRepeat /\ [][NextRepeat]_vars

(* ------------------------------------------------------------------------ *)
(*                               properties                                 *)
(* ------------------------------------------------------------------------ *)
Returned(c, op) == pc = "returned" /\ cls = c /\ result.call.op = op
ReturnedOk(c, op) == Returned(c, op) /\ result.out.status = "ok"

(* every non-empty boolean vector of length p *)
NonEmptyMasks(p) == {mk \in [1..p -> BOOLEAN] : AnyTrue(mk)}
FullMask(p) == [c \in 1..p |-> TRUE]

(* mask a is enumerated before mask b: lexicographic with False < True *)
MaskBefore(a, b) ==
    \E c \in 1..Len(a) : (\A e \in 1..(c - 1) : a[e] = b[e]) /\ ~a[c] /\ b[c]

(* the data of the finished call as the masks see it *)
SeenData ==
    IF standard_scalar.fitted
    THEN ScalerTransform(standard_scalar, result.call.data).value
    ELSE result.call.data

(* what the child sampler and the loss give for a mask on the finished call *)
Under(mk) ==
    EvaluateMask(train_data, train_params, SeenData, mk,
                 result.call.num_samples, loss_fn).value

SubsetDone == ReturnedOk("SS", "sample")
Observations == 1..Len(result.call.data.rows)
BestLossOf(i) == result.out.value.info.best_loss.val[i]
BestMaskOf(i) == result.out.value.info.best_mask.val[i]
BestSamplesOf(i) == result.out.value.samples.val.val[i]

(* C1: when SubsetSelectionAlgorithm.sample returns, for every observation *)
(* i the best loss is the minimum of the losses of all non-empty masks for *)
(* i (so at most the loss of the all-True mask), the best mask is a mask   *)
(* whose loss for i is that minimum, and the returned samples of i are the *)
(* child sampler's samples for i under that mask.                          *)
C1_BestIsMinimum ==
    SubsetDone =>
        \A i \in Observations :
            /\ \A mk \in NonEmptyMasks(NumCols(train_data)) :
                  BestLossOf(i) <= Under(mk).loss[i]
            /\ BestLossOf(i) <= Under(FullMask(NumCols(train_data))).loss[i]
            /\ BestMaskOf(i) \in NonEmptyMasks(NumCols(train_data))
            /\ Under(BestMaskOf(i)).loss[i] = BestLossOf(i)
            /\ BestSamplesOf(i) = Under(BestMaskOf(i)).samples.val[i]

(* a search that ended with an observation whose best loss beats the loss  *)
(* of the full mask, under a mask that is not the first of the enumeration *)
C1_Witness ==
    /\ SubsetDone
    /\ \E i \in Observations :
          /\ BestLossOf(i) < Under(FullMask(NumCols(train_data))).loss[i]
          /\ BestMaskOf(i) # EnumerateMasks(NumCols(train_data))[1]

(* C2: when several masks give the minimal loss of an observation, the     *)
(* recorded best mask (and the samples returned) is the one enumerated     *)
(* first, in the lexicographic order of the product over (False, True).    *)
C2_FirstEnumeratedWins ==
    SubsetDone =>
        \A i \in Observations :
            /\ \A mk \in NonEmptyMasks(NumCols(train_data)) :
                  Under(mk).loss[i] = BestLossOf(i) =>
                      mk = BestMaskOf(i) \/ MaskBefore(BestMaskOf(i), mk)
            /\ BestSamplesOf(i) = Under(BestMaskOf(i)).samples.val[i]

(* a search that ended with a tie: a later mask has the minimal loss too,  *)
(* with other samples than the winner's                                    *)
C2_Witness ==
    /\ SubsetDone
    /\ \E i \in Observations : \E mk \in NonEmptyMasks(NumCols(train_data)) :
          /\ mk # BestMaskOf(i)
          /\ Under(mk).loss[i] = BestLossOf(i)
          /\ Under(mk).samples.val[i] # BestSamplesOf(i)

(* C3: a sample call that completes on p features has evaluated exactly    *)
(* 2^p - 1 masks: every non-empty mask once, never the all-False mask, and  *)
(* info['masks'] and info['losses'] hold one entry per evaluated mask, in   *)
(* the same order.                                                         *)
C3_Exhaustive ==
    SubsetDone =>
        LET p == NumCols(train_data)
            info == result.out.value.info
        IN  /\ Len(evaluated) = 2^p - 1
            /\ Range(evaluated) = NonEmptyMasks(p)
            /\ Cardinality(Range(evaluated)) = Len(evaluated)
            /\ info.masks = evaluated
            /\ Len(info.losses) = Len(evaluated)
            /\ \A j \in 1..Len(evaluated) :
                  info.losses[j] = Under(evaluated[j]).loss

(* a completed search over two features and a non-empty batch *)
C3_Witness ==
    /\ SubsetDone
    /\ NumCols(train_data) = 2
    /\ Len(evaluated) = 3
    /\ Observations # {}

(* the distance of the nearest neighbour of observation i in the outcome *)
NearestDistance(v, i) ==
    IF Len(v.info.distances.shape) = 1
    THEN v.info.distances.val[i]
    ELSE v.info.distances.val[i][1]

(* C4: with standardization enabled, the representation the static        *)
(* compressor sampler hands to the index query is the compressed data     *)
(* standardized exactly once, as the training data was, so an observation *)
(* equal to a training row is found at distance 0.                        *)
C4_StandardizedOnce ==
    (ReturnedOk("SC", "sample") /\ standard_scalar.fitted) =>
        LET v == result.out.value
            once == ScalerTransform(standard_scalar,
                        [ndim |-> 2,
                         rows |-> Compress(compressor, result.call.data.rows)]).value.rows
        IN  /\ v.queried = once
            /\ \A i \in Observations :
                  (\E j \in 1..Len(ctor.train_data) :
                      result.call.data.rows[i] = ctor.train_data[j])
                  => NearestDistance(v, i) = RInt(0)

(* C5: for NearestNeighborAlgorithm.sample and SubsetSelectionAlgorithm.   *)
(* sample, a single observation passed as a p-vector succeeds and returns *)
(* what the same observation passed as a (1 x p) matrix returns.          *)
C5_VectorLikeMatrix ==
    (pc = "returned" /\ cls \in {"NN", "SS"} /\ result.call.op = "sample"
        /\ result.call.data.ndim = 1) =>
        /\ result.call.num_samples <= Len(train_params) => result.out.status = "ok"
        /\ first.call = [result.call EXCEPT !.data.ndim = 2] => result.out = first.out

(* C6: NearestNeighborAlgorithm.sample with num_samples above the number   *)
(* of reference rows ends in an error and returns no samples.              *)
C6_TooManySamplesRaises ==
    (Returned("NN", "sample") /\ result.call.num_samples > Len(train_params)) =>
        result.out.status = "error"

(* C7: on a static compressor sampler get_compressor(data) with data not   *)
(* None fails with the assertion's error and returns no function, and      *)
(* get_compressor(None) returns the compressor captured at construction,   *)
(* which no call ever replaces.                                            *)
C7_StaticCompressor ==
    cls = "SC" =>
        /\ compressor = ctor.compressor
        /\ Returned("SC", "get_compressor") =>
              IF result.call.data = NoneVal
              THEN result.out = Ok(ctor.compressor)
              ELSE result.out = Err("AssertionError")

(* get_compressor was called with data and failed *)
C7_Witness ==
    /\ Returned("SC", "get_compressor")
    /\ result.call.data # NoneVal
    /\ result.out.status = "error"

(* C8: for num_samples <= n, 1 included, NearestNeighborAlgorithm.sample   *)
(* returns samples of shape (m, num_samples, q) and indices and distances  *)
(* of shape (m, num_samples); samples[i][j] is the parameter row of the    *)
(* j-th nearest reference entry and distances[i] is non-decreasing.        *)
C8_Shapes ==
    (ReturnedOk("NN", "sample") /\ result.call.num_samples <= Len(train_params)) =>
        LET v == result.out.value
            m == Len(result.call.data.rows)
            k == result.call.num_samples
        IN  /\ v.samples.shape = <<m, k, NumParams>>
            /\ v.info.indices.shape = <<m, k>>
            /\ v.info.distances.shape = <<m, k>>
            /\ \A i \in 1..m : \A j \in 1..k :
                  /\ v.samples.val[i][j] = train_params[v.info.indices.val[i][j]]
                  /\ j < k => RLe(v.info.distances.val[i][j],
                                  v.info.distances.val[i][j + 1])
                  /\ v.info.distances.val[i][j] =
                        SqDist(v.queried[i], reference[v.info.indices.val[i][j]])
                  /\ Cardinality({a \in 1..Len(reference) :
                        RLt(SqDist(v.queried[i], reference[a]),
                            v.info.distances.val[i][j])}) <= j - 1

(* C9: two sample calls on one instance with the same data and the same    *)
(* num_samples return the same samples and the same info, whatever calls   *)
(* were made between them.                                                 *)
C9_Idempotent ==
    (pc = "returned" /\ result.call.op = "sample" /\ result.call = first.call) =>
        result.out = first.out

(* a subset search repeated on a batch of two observations, successfully *)
C9_Witness ==
    /\ ReturnedOk("SS", "sample")
    /\ result.call = first.call
    /\ Len(result.call.data.rows) = 2
    /\ standard_scalar.fitted

(* C10: a failure of the child sampler or of the loss for one mask ends    *)
(* the search in that error: the loop never goes on past a failed mask,    *)
(* and the caller gets the error alone, with no best samples, mask or loss *)
(* of the masks processed before it.                                       *)
C10_FailureAborts ==
    /\ pc = "loop" =>
          \A j \in 1..Len(evaluated) :
              EvaluateMask(train_data, train_params, data, evaluated[j],
                           call.num_samples, loss_fn).status = "ok"
    /\ (Returned("SS", "sample") /\ result.out.status = "error" /\ evaluated # <<>>) =>
          LET n == Len(evaluated)
              outcome(j) == EvaluateMask(train_data, train_params, SeenData,
                                         evaluated[j], result.call.num_samples, loss_fn)
          IN  /\ DOMAIN result.out = {"status", "error"}
              /\ evaluated = SubSeq(EnumerateMasks(NumCols(train_data)), 1, n)
              /\ \A j \in 1..(n - 1) : outcome(j).status = "ok"
              /\ result.out = outcome(n)
              /\ best_loss = NoneVal /\ best_samples = NoneVal /\ best_mask = NoneVal

(* a search that failed on a mask after an earlier mask had succeeded *)
C10_Witness ==
    /\ Returned("SS", "sample")
    /\ result.out.status = "error"
    /\ Len(evaluated) >= 2

(* C11: no sequence of sample calls changes the instance: train_data,     *)
(* train_params, the spatial index and the fitted mean and scale are at    *)
(* every moment what the constructor built, the in-place update of the     *)
(* running best included; and the array the subset search works on stays   *)
(* the caller's data (its standardized copy when a scaler is fitted).      *)
C11_InstanceUnchanged ==
    /\ train_params = ctor.train_params
    /\ train_data = Construct(cls, ctor).train_data
    /\ standard_scalar = Construct(cls, ctor).standard_scalar
    /\ reference = Construct(cls, ctor).reference
    /\ pc = "loop" =>
          data = IF standard_scalar.fitted
                 THEN ScalerTransform(standard_scalar, call.data).value
                 ELSE call.data

(* a standardized subset search in its loop, after an in-place update has  *)
(* replaced the running best of an observation by rows other than its own  *)
C11_Witness ==
    /\ pc = "loop" /\ pos >= 3
    /\ standard_scalar.fitted
    /\ \E i \in 1..Len(best_mask.val) :
          /\ best_mask.val[i] # masks[1]
          /\ i <= Len(train_params)
          /\ WrittenRow(best_samples.val, i) # train_params[i]

(* the call the caller kept was a subset search on the single observation *)
(* row, with the number of samples of the call that has just returned      *)
KeptAlone(row) ==
    /\ first.call.op = "sample"
    /\ first.call.num_samples = result.call.num_samples
    /\ first.call.data = [ndim |-> 2, rows |-> <<row>>]

(* C12: in a subset search whose loss scores each observation from its own *)
(* candidate samples, every observation of a batch gets the winning mask,  *)
(* winning loss and samples it gets when sample is called on that          *)
(* observation alone (a call that then succeeds as well), whatever the     *)
(* other observations of the batch are.                                    *)
C12_RowsIndependent ==
    SubsetDone =>
        \A i \in Observations :
            KeptAlone(result.call.data.rows[i]) =>
                /\ first.out.status = "ok"
                /\ BestMaskOf(i) = first.out.value.info.best_mask.val[1]
                /\ BestLossOf(i) = first.out.value.info.best_loss.val[1]
                /\ BestSamplesOf(i) = first.out.value.samples.val.val[1]

(* a batch of two different observations that end with different winning   *)
(* masks, one of which the caller had searched alone before                *)
C12_Witness ==
    /\ SubsetDone
    /\ Len(result.call.data.rows) = 2
    /\ result.call.data.rows[1] # result.call.data.rows[2]
    /\ BestMaskOf(1) # BestMaskOf(2)
    /\ KeptAlone(result.call.data.rows[2])

(* the samples the child sampler gives under the j-th mask of the loop *)
SamplesUnder(j) ==
    EvaluateMask(train_data, train_params, data, masks[j],
                 call.num_samples, loss_fn).value.samples.val

(* the loop body has just processed a mask and the loop goes on *)
MaskProcessed == pc = "loop" /\ pc' = "loop" /\ pos' = pos + 1

(* the running best of observation i after the step: a processed mask, its *)
(* loss for i, minimal among the processed masks, and its samples for i    *)
ConsistentAfter(i) ==
    /\ \E j \in 1..(pos' - 1) :
          /\ best_mask'.val[i] = masks[j]
          /\ best_loss'.val[i] = losses'[j][i]
          /\ best_samples'.val.val[i] = SamplesUnder(j)[i]
    /\ \A j \in 1..(pos' - 1) : best_loss'.val[i] <= losses'[j][i]

(* observation i keeps its three records when the new loss is not smaller *)
KeptUnlessSmaller(i) ==
    (~best_loss.isNone /\ ~(losses'[pos][i] < best_loss.val[i])) =>
        /\ best_mask'.val[i] = best_mask.val[i]
        /\ best_loss'.val[i] = best_loss.val[i]
        /\ best_samples'.val.val[i] = best_samples.val.val[i]

(* C13: after every mask the loop processes, for every observation i the   *)
(* best mask is a processed mask, the best loss is the loss that mask gave *)
(* for i and the least loss for i so far, and the best samples are that    *)
(* mask's samples for i; an observation whose new loss is not strictly     *)
(* smaller keeps all three; and the losses appended before stay as they    *)
(* were, the new loss being appended after them.                           *)
C13_RunningBestConsistent ==
    [][MaskProcessed =>
          /\ Len(losses') = pos /\ SubSeq(losses', 1, pos - 1) = losses
          /\ \A i \in 1..Len(data.rows) : ConsistentAfter(i) /\ KeptUnlessSmaller(i)]_vars

(* a loop that has processed two masks: one observation took the second    *)
(* mask, another kept the first although the second gave it a loss         *)
C13_Witness ==
    /\ pc = "loop" /\ pos = 3
    /\ \E i, j \in 1..Len(data.rows) :
          /\ best_mask.val[i] = masks[2] /\ losses[2][i] < losses[1][i]
          /\ best_mask.val[j] = masks[1] /\ losses[2][j] >= losses[1][j]

====
